---- MODULE Spec2Model ----
(***************************************************************************)
(* Model of selene's interval sampler                                      *)
(* (src/selene/samplers/intervals_sampler.py).                             *)
(*                                                                         *)
(* Interval indices are 0-based as in the Python code; a Python list is a  *)
(* TLA+ sequence, so list element i is seq[i + 1].                         *)
(*                                                                         *)
(* A weight is the exact rational num/den of the float the code computes   *)
(* (select_interval_lens / float(np.sum(select_interval_lens))).  The      *)
(* float nan that numpy produces for 0/0.0 is the record with den = 0.     *)
(***************************************************************************)
EXTENDS Integers, Sequences, FiniteSets, TLC

(***************************************************************************)
(* Bounds of the model.                                                    *)
(***************************************************************************)
MaxIntervals == 3
MaxLen == 1
MaxBatch == 2
MaxLog == 2

(***************************************************************************)
(* Values of the program.                                                  *)
(***************************************************************************)
\* 1e-10 = 1 / (TenPow5 * TenPow5)
TenPow5 == 100000

\* the 0.60 of _retrieve, in hundredths
MinUnambiguousPct == 60

AllModes == <<"train", "validate", "test">>

STRAND_SIDES == <<"+", "-">>

(***************************************************************************)
(* Helpers on sequences.                                                   *)
(***************************************************************************)
Range(s) == {s[k] : k \in 1..Len(s)}

RECURSIVE SumSeq(_)
SumSeq(s) == IF s = <<>> THEN 0 ELSE s[1] + SumSeq(Tail(s))

\* a mutation of Slice: the element at hi is part of the slice
SliceInclusive(s, lo, hi) ==
    LET h == IF hi + 1 > Len(s) THEN Len(s) ELSE hi + 1
    IN  IF lo >= h THEN <<>> ELSE [k \in 1..(h - lo) |-> s[lo + k]]

\* Python's s[lo:hi] for 0 <= lo, 0 <= hi
Slice(s, lo, hi) ==
    LET h == IF hi > Len(s) THEN Len(s) ELSE hi
    IN  IF lo >= h THEN <<>> ELSE [k \in 1..(h - lo) |-> s[lo + k]]

\* the injective sequences over S: the orders np.random.shuffle can produce
Perms(S) ==
    {p \in [1..Cardinality(S) -> S] : \A i, j \in DOMAIN p : i # j => p[i] # p[j]}

\* sequences of distinct elements of S, of any length
DistinctSeqs(S) ==
    UNION {{p \in [1..n -> S] : \A i, j \in 1..n : i # j => p[i] # p[j]} :
           n \in 0..Cardinality(S)}

(***************************************************************************)
(* _get_indices_and_probabilities                                          *)
(***************************************************************************)
\* np.array(interval_lengths)[indices]
SelectIntervalLens(interval_lengths, indices) ==
    [k \in 1..Len(indices) |-> interval_lengths[indices[k] + 1]]

\* a mutation of Weights: normalise by the whole table instead of the subset
WeightsOverTable(interval_lengths, indices) ==
    LET select_interval_lens == SelectIntervalLens(interval_lengths, indices)
    IN  [k \in 1..Len(indices) |->
            [num |-> select_interval_lens[k], den |-> SumSeq(interval_lengths)]]

\* weights = select_interval_lens / float(np.sum(select_interval_lens))
Weights(interval_lengths, indices) ==
    LET select_interval_lens == SelectIntervalLens(interval_lengths, indices)
        total == SumSeq(select_interval_lens)
    IN  [k \in 1..Len(indices) |->
            [num |-> select_interval_lens[k], den |-> total]]

\* a mutation of WeightAboveThreshold: the comparison is >= 0
WeightNotNegative(w) == w.den > 0 /\ w.num >= 0

\* weight > 1e-10; a comparison with nan is False
WeightAboveThreshold(w) ==
    /\ w.den > 0
    /\ w.num * TenPow5 > w.den \div TenPow5

RECURSIVE KeepIndices(_, _, _)
KeepIndices(indices, weights, k) ==
    IF k > Len(indices) THEN <<>>
    ELSE (IF WeightAboveThreshold(weights[k]) THEN <<indices[k]>> ELSE <<>>)
         \o KeepIndices(indices, weights, k + 1)

RECURSIVE _get_indices_and_probabilities(_, _)
_get_indices_and_probabilities(interval_lengths, indices) ==
    LET weights == Weights(interval_lengths, indices)
        keep_indices == KeepIndices(indices, weights, 1)
    IN  IF Len(keep_indices) = Len(indices)
        THEN [is_none |-> FALSE, indices |-> indices, weights |-> weights]
        ELSE _get_indices_and_probabilities(interval_lengths, keep_indices)

\* the sum of a list of weights, as a rational [num, den]; den = 0 is nan
\* and the empty sum is 0/1
WeightSum(weights) ==
    IF weights = <<>> THEN [num |-> 0, den |-> 1]
    ELSE IF \E k \in 1..Len(weights) : weights[k].den = 0
         THEN [num |-> 0, den |-> 0]
         ELSE [num |-> SumSeq([k \in 1..Len(weights) |-> weights[k].num]),
               den |-> weights[1].den]

SumsToOne(weights) ==
    LET s == WeightSum(weights) IN s.den > 0 /\ s.num = s.den

(***************************************************************************)
(* np.random.choice(a, size=size, replace=True, p=p)                       *)
(***************************************************************************)
\* the call raises ValueError unless a is non-empty (or no sample is taken),
\* p has the size of a, holds no nan and sums to 1
np_random_choice_valid(a, size, p) ==
    /\ (Len(a) > 0 \/ size = 0)
    /\ Len(p) = Len(a)
    /\ SumsToOne(p)

\* the arrays the call can return: size draws, with replacement, of the
\* elements of a that have a positive probability
np_random_choice(a, size, p) ==
    [1..size -> {a[k] : k \in {j \in 1..Len(a) : p[j].num > 0}}]

(***************************************************************************)
(* The inputs of the constructor.                                          *)
(***************************************************************************)
\* chromosome names that occur in the intervals file
Chroms == {"1", "6", "8"}

\* A holdout is None, a list of chromosome names or a float; the float is
\* kept in hundredths (0.34 is 34)
NoHoldout == [kind |-> "None"]
ChromHoldout(chroms) == [kind |-> "list", chroms |-> chroms]
FractionHoldout(pct) == [kind |-> "float", pct |-> pct]

\* the default chromosome holdouts of __init__
DefaultValidationHoldout == ChromHoldout({"6", "7"})
DefaultTestHoldout == ChromHoldout({"8", "9"})

\* proportional holdouts
ValidationFractions == {0, 34, 50, 100}
TestFractions == {0, 34, 50}

\* lines of an intervals file: (chrom, start, end), start = 0, end = length
IntervalLines(chroms) ==
    {<<c, 0, e>> : c \in chroms, e \in 0..MaxLen}

IntervalFiles(chroms) ==
    UNION {[1..n -> IntervalLines(chroms)] : n \in 0..MaxIntervals}

ChromRank(c) == CASE c = "1" -> 1 [] c = "6" -> 2 [] c = "8" -> 3

\* The file explored in depth: MaxIntervals lines of length MaxLen, the
\* first on a validation chromosome, the second on a test chromosome, the
\* others on neither.
DeepFile ==
    [k \in 1..MaxIntervals |->
        <<IF k = 1 THEN "6" ELSE IF k = 2 THEN "8" ELSE "1", 0, MaxLen>>]

\* Files for the chromosome split: lines grouped by chromosome (a
\* permutation of the lines only renames the indices), and DeepFile.
ChromosomeFiles ==
    {f \in IntervalFiles(Chroms) :
        \A k \in 1..(Len(f) - 1) : ChromRank(f[k][1]) <= ChromRank(f[k + 1][1])}
    \cup {DeepFile}

\* Files for the proportional split: one chromosome, the longer intervals
\* first (the shuffle of the indices supplies every order).
ProportionFiles ==
    {f \in IntervalFiles({"1"}) :
        \A k \in 1..(Len(f) - 1) : f[k][3] >= f[k + 1][3]}

\* what the label collaborator can return: "zero" is a source that returns
\* an all-zero vector for every region
LabelSources == {"zero", "any"}

\* self.n_features
NFeatures == 2

\* sequence_length, center_bin_to_predict and the radii derived from them
SequenceLength == 5
CenterBinToPredict == 1
SurroundingSequenceRadius == (SequenceLength - CenterBinToPredict) \div 2
StartRadius == CenterBinToPredict \div 2
EndRadius ==
    IF CenterBinToPredict % 2 = 0
    THEN CenterBinToPredict \div 2 ELSE CenterBinToPredict \div 2 + 1

VARIABLES
    pc,                    \* where the program is
    holdout_type,          \* self._holdout_type
    validation_holdout,    \* self.validation_holdout
    test_holdout,          \* self.test_holdout
    sample_negative,       \* self.sample_negative
    label_source,          \* the behaviour of query_feature_data
    intervals_file,        \* the lines of intervals_file
    sample_from_intervals, \* self.sample_from_intervals
    interval_lengths,      \* self.interval_lengths
    sample_from_mode,      \* self._sample_from_mode
    randcache,             \* self._randcache
    mode,                  \* self.mode
    save_datasets,         \* self.save_datasets
    batch_size,            \* sample(): batch_size
    n_samples_drawn,       \* sample(): n_samples_drawn
    sequences,             \* sample(): sequences, one entry per row
    targets,               \* sample(): targets, one entry per row
    writes,                \* the rows sample() assigned, in order
    draw,                  \* the last iteration of the loop of sample()
    sel_in,                \* arguments of _get_indices_and_probabilities
    sel_out,               \* its result
    call,                  \* arguments of a variant effect function
    result,                \* what the variant effect function has done so far
    data                   \* the call of get_data_and_targets

vars == <<pc, holdout_type, validation_holdout, test_holdout, sample_negative,
          label_source, intervals_file, sample_from_intervals,
          interval_lengths, sample_from_mode, randcache, mode, save_datasets,
          batch_size, n_samples_drawn, sequences, targets, writes,
          draw, sel_in, sel_out, call, result, data>>

config_vars == <<holdout_type, validation_holdout, test_holdout,
                 sample_negative, label_source, intervals_file>>

sample_vars == <<batch_size, n_samples_drawn, sequences, targets, writes,
                 draw>>

sel_vars == <<sel_in, sel_out>>

variant_vars == <<call, result>>

\* Python truthiness of test_holdout: None, 0 and [] are false
Truthy(holdout) ==
    \/ holdout.kind = "list" /\ holdout.chroms # {}
    \/ holdout.kind = "float" /\ holdout.pct # 0

\* self.modes: "test" is a mode only when a test holdout is configured
modes == IF Truthy(test_holdout) THEN AllModes ELSE SubSeq(AllModes, 1, 2)

ModeSet == Range(modes)

\* no iteration of the loop of sample() yet
NoDraw == [kind |-> "none", refilled |-> FALSE, sample_index |-> 0,
           rand_interval_index |-> 0]

\* the namedtuple; is_none tells the None that a mode's entry holds before
\* the dataset is partitioned
SampleIndices(indices, weights) ==
    [is_none |-> FALSE, indices |-> indices, weights |-> weights]

NoSampleIndices == [is_none |-> TRUE, indices |-> <<>>, weights |-> <<>>]

\* {"cache": None, "sample_next": 0}: no "cache_indices" yet
\* no call of _get_indices_and_probabilities on its own
NoSelection == [interval_lengths |-> <<>>, indices |-> <<>>]

\* no variant effect function is running
NoCall == [fn |-> "none"]

\* get_data_and_targets is not running and has not run
NoData == [active |-> FALSE, returned |-> FALSE, raises |-> "none",
           mode |-> "train", batch_size |-> 0, n_samples |-> 0, n_batches |-> 0,
           sequences_and_targets |-> <<>>, targets_mat |-> <<>>]

NoCache == [filled |-> FALSE, cache_indices |-> <<>>, sample_next |-> 0]

(***************************************************************************)
(* The state at the head of __init__, after OnlineSampler.__init__ and     *)
(* lines 95-102: the arguments are chosen, nothing is loaded.              *)
(***************************************************************************)
ChromosomeConfigs ==
    {[holdout_type |-> "chromosome",
      validation_holdout |-> DefaultValidationHoldout,
      test_holdout |-> t,
      intervals_file |-> f] :
        t \in {NoHoldout, DefaultTestHoldout}, f \in ChromosomeFiles}

ProportionConfigs ==
    {[holdout_type |-> "proportion",
      validation_holdout |-> FractionHoldout(v),
      test_holdout |-> t,
      intervals_file |-> f] :
        v \in ValidationFractions,
        t \in {NoHoldout} \cup {FractionHoldout(x) : x \in TestFractions},
        f \in ProportionFiles}

\* the fractions of a proportional split sum to at most 1
ValidConfig(c) ==
    (c.holdout_type = "proportion" /\ c.test_holdout.kind = "float")
        => c.validation_holdout.pct + c.test_holdout.pct <= 100

Configs == {c \in ChromosomeConfigs \cup ProportionConfigs : ValidConfig(c)}

DeepConfig(c) ==
    c.holdout_type = "chromosome" /\ c.intervals_file = DeepFile

\* Every configuration is explored with a label source that returns only
\* all-zero vectors and sample_negative off (every draw is rejected); the
\* configurations of DeepFile are explored with every label source and
\* both values of sample_negative.
Environments(c) ==
    IF DeepConfig(c)
    THEN [sample_negative : BOOLEAN, label_source : LabelSources]
    ELSE {[sample_negative |-> FALSE, label_source |-> "zero"]}

InitState(c, e) ==
    /\ pc = "init"
    /\ holdout_type = c.holdout_type
    /\ validation_holdout = c.validation_holdout
    /\ test_holdout = c.test_holdout
    /\ intervals_file = c.intervals_file
    /\ sample_negative = e.sample_negative
    /\ label_source = e.label_source
    /\ sample_from_intervals = <<>>
    /\ interval_lengths = <<>>
    /\ sample_from_mode = [m \in ModeSet |-> NoSampleIndices]
    /\ randcache = [m \in ModeSet |-> NoCache]
    /\ mode = "train"
    /\ save_datasets = [m \in {"test"} |-> <<>>]
    /\ batch_size = 0
    /\ n_samples_drawn = 0
    /\ sequences = <<>>
    /\ targets = <<>>
    /\ writes = <<>>
    /\ draw = NoDraw
    /\ sel_in = NoSelection
    /\ sel_out = NoSampleIndices
    /\ call = NoCall
    /\ result = NoCall
    /\ data = NoData

Init == \E c \in Configs : \E e \in Environments(c) : InitState(c, e)

(***************************************************************************)
(* _partition_dataset_proportion and _partition_dataset_chromosome         *)
(***************************************************************************)
\* the loop over the lines of the file: what both partitions load
LoadedIntervals == intervals_file
LoadedLengths == [k \in 1..Len(intervals_file) |->
                     intervals_file[k][3] - intervals_file[k][2]]

\* int(n_intervals * holdout) for a holdout in hundredths
NIndices(n_intervals, holdout) == (n_intervals * holdout.pct) \div 100

_partition_dataset_proportion ==
    /\ pc = "init"
    /\ holdout_type = "proportion"
    /\ LET n_intervals == Len(LoadedIntervals)
       IN  \E select_indices \in Perms(0..(n_intervals - 1)) :
             LET n_indices_validate == NIndices(n_intervals, validation_holdout)
                 n_indices_test == NIndices(n_intervals, test_holdout)
                 test_indices_end == n_indices_test + n_indices_validate
                 val == _get_indices_and_probabilities(LoadedLengths,
                            Slice(select_indices, 0, n_indices_validate))
                 test == _get_indices_and_probabilities(LoadedLengths,
                            Slice(select_indices, n_indices_validate,
                                  test_indices_end))
                 tr_after_test == _get_indices_and_probabilities(LoadedLengths,
                            Slice(select_indices, test_indices_end, n_intervals))
                 tr_after_val == _get_indices_and_probabilities(LoadedLengths,
                            Slice(select_indices, n_indices_validate, n_intervals))
             IN  sample_from_mode' =
                    IF Truthy(test_holdout)
                    THEN [m \in ModeSet |->
                            CASE m = "validate" -> val
                              [] m = "test" -> test
                              [] m = "train" -> tr_after_test]
                    ELSE [m \in ModeSet |->
                            CASE m = "validate" -> val
                              [] m = "train" -> tr_after_val]
    /\ sample_from_intervals' = LoadedIntervals
    /\ interval_lengths' = LoadedLengths
    /\ pc' = "fill"
    /\ UNCHANGED <<config_vars, randcache, mode, save_datasets, sample_vars,
                   sel_vars, variant_vars, data>>

\* a mutation of ChromMode: the elif of the test set is missing
ChromModeNoTest(chrom) ==
    IF chrom \in validation_holdout.chroms THEN "validate" ELSE "train"

\* the if / elif / else on the chromosome of a line
ChromMode(chrom) ==
    IF chrom \in validation_holdout.chroms THEN "validate"
    ELSE IF Truthy(test_holdout) /\ chrom \in test_holdout.chroms THEN "test"
    ELSE "train"

\* the indices appended to a mode's list, in file order
RECURSIVE AppendedIndices(_, _)
AppendedIndices(m, n) ==
    IF n = 0 THEN <<>>
    ELSE AppendedIndices(m, n - 1) \o
         (IF ChromMode(intervals_file[n][1]) = m THEN <<n - 1>> ELSE <<>>)

_partition_dataset_chromosome ==
    /\ pc = "init"
    /\ holdout_type = "chromosome"
    /\ sample_from_mode' =
          [m \in ModeSet |->
              _get_indices_and_probabilities(
                  LoadedLengths, AppendedIndices(m, Len(intervals_file)))]
    /\ sample_from_intervals' = LoadedIntervals
    /\ interval_lengths' = LoadedLengths
    /\ pc' = "fill"
    /\ UNCHANGED <<config_vars, randcache, mode, save_datasets, sample_vars,
                   sel_vars, variant_vars, data>>

(***************************************************************************)
(* _update_randcache                                                       *)
(***************************************************************************)
\* a mutation of _update_randcache: sample_next is not reset
_update_randcache_keeps_cursor(m) ==
    LET indices == sample_from_mode[m].indices
        weights == sample_from_mode[m].weights
    IN  [raises |-> \/ sample_from_mode[m].is_none
                    \/ ~np_random_choice_valid(indices, Len(indices), weights),
         results |->
            {[filled |-> TRUE, cache_indices |-> c,
              sample_next |-> randcache[m].sample_next] :
                c \in np_random_choice(indices, Len(indices), weights)}]

\* a mutation of _update_randcache: the draw is uniform over every loaded
\* interval instead of the mode's indices and weights
_update_randcache_all_intervals(m) ==
    LET n == Len(sample_from_intervals)
    IN  [raises |-> n = 0,
         results |->
            {[filled |-> TRUE, cache_indices |-> c, sample_next |-> 0] :
                c \in [1..n -> 0..(n - 1)]}]

\* The call for mode m: raises tells whether np.random.choice raises (the
\* exception leaves _update_randcache with the entry untouched), results
\* are the entries of self._randcache[m] the call can leave otherwise.
_update_randcache(m) ==
    LET indices == sample_from_mode[m].indices
        weights == sample_from_mode[m].weights
    IN  [raises |-> \/ sample_from_mode[m].is_none
                    \/ ~np_random_choice_valid(indices, Len(indices), weights),
         results |->
            {[filled |-> TRUE, cache_indices |-> c, sample_next |-> 0] :
                c \in np_random_choice(indices, Len(indices), weights)}]

UpdateRandcacheRaises(m) == _update_randcache(m).raises

UpdateRandcacheResults(m) == _update_randcache(m).results

Min(S) == CHOOSE x \in S : \A y \in S : x <= y

\* for mode in self.modes: self._update_randcache(mode=mode), and then
\* self.sample_negative = sample_negative.  The first mode whose refill
\* raises ends the constructor.
InitRandcache ==
    /\ pc = "fill"
    /\ LET bad == {k \in 1..Len(modes) : UpdateRandcacheRaises(modes[k])}
           stop == IF bad = {} THEN Len(modes) + 1 ELSE Min(bad)
           filled == {modes[k] : k \in 1..(stop - 1)}
           choices(m) == IF m \in filled THEN UpdateRandcacheResults(m)
                         ELSE IF m \in ModeSet THEN {randcache[m]}
                         ELSE {NoCache}
       IN  /\ \E tr \in choices("train"), va \in choices("validate"),
                 te \in choices("test") :
                 randcache' = [m \in ModeSet |->
                                  CASE m = "train" -> tr
                                    [] m = "validate" -> va
                                    [] m = "test" -> te]
           /\ pc' = IF bad = {} THEN "ready" ELSE "error"
    /\ UNCHANGED <<config_vars, sample_from_intervals, interval_lengths,
                   sample_from_mode, mode, save_datasets, sample_vars,
                   sel_vars, variant_vars, data>>

(***************************************************************************)
(* set_mode (OnlineSampler)                                                *)
(***************************************************************************)
ClearedSample ==
    /\ batch_size' = 0
    /\ n_samples_drawn' = 0
    /\ sequences' = <<>>
    /\ targets' = <<>>
    /\ writes' = <<>>
    /\ draw' = NoDraw

set_mode(m) ==
    /\ pc \in {"ready", "returned"}
    /\ m \in ModeSet
    /\ m # mode
    /\ mode' = m
    /\ pc' = "ready"
    /\ ClearedSample
    /\ UNCHANGED <<config_vars, sample_from_intervals, interval_lengths,
                   sample_from_mode, randcache, save_datasets, sel_vars, variant_vars, data>>

(***************************************************************************)
(* What the collaborators of _retrieve can return.                         *)
(***************************************************************************)
\* query_feature_data.get_feature_data: a 0/1 vector of n_features entries
LabelVectors ==
    IF label_source = "zero" THEN {[f \in 1..NFeatures |-> 0]}
    ELSE [1..NFeatures -> {0, 1}]

\* numbers of unambiguous bases in a retrieved window: under 0.60 of the
\* window, exactly 0.60 of it, and all of it
UnambiguousCounts ==
    {(MinUnambiguousPct * SequenceLength) \div 100 - 1,
     (MinUnambiguousPct * SequenceLength) \div 100,
     SequenceLength}

\* genome.get_encoding_from_coords: an encoding is kept as its number of
\* rows (shape[0]) and the sum of its entries, one per unambiguous base
Encodings ==
    {[shape0 |-> 0, sum |-> 0]} \cup
    {[shape0 |-> SequenceLength, sum |-> k] : k \in UnambiguousCounts}

\* int(random.uniform(0, 1) * interval_length)
PositionOffsets(interval_length) ==
    IF interval_length <= 0 THEN {0} ELSE 0..(interval_length - 1)

\* np.zeros rows
ZeroSequence == [shape0 |-> SequenceLength, sum |-> 0]
ZeroTargets == [f \in 1..NFeatures |-> 0]

\* np.nonzero(retrieved_targets)[0], joined with ';'
RECURSIVE FeatureIndices(_, _)
FeatureIndices(retrieved_targets, n) ==
    IF n = 0 THEN <<>>
    ELSE FeatureIndices(retrieved_targets, n - 1) \o
         (IF retrieved_targets[n] # 0 THEN <<n - 1>> ELSE <<>>)

(***************************************************************************)
(* _retrieve                                                               *)
(***************************************************************************)
\* a mutation of UnambiguousTooLow: the threshold is the ambiguous share
UnambiguousUnderAmbiguousShare(retrieved_seq) ==
    retrieved_seq.sum * 100 < (100 - MinUnambiguousPct) * retrieved_seq.shape0

\* np.sum(retrieved_seq) / float(retrieved_seq.shape[0]) < 0.60
UnambiguousTooLow(retrieved_seq) ==
    retrieved_seq.sum * 100 < MinUnambiguousPct * retrieved_seq.shape0

\* a mutation of NoFeatures: the test of sample_negative is inverted
NoFeaturesInverted(retrieved_targets) ==
    sample_negative /\ SumSeq(retrieved_targets) = 0

\* not self.sample_negative and np.sum(retrieved_targets) == 0
NoFeatures(retrieved_targets) ==
    ~sample_negative /\ SumSeq(retrieved_targets) = 0

\* a mutation of _retrieve: the record is saved before the retrieved
\* sequence is examined
_retrieve_saves_first(chrom, position, retrieved_targets, strand, retrieved_seq) ==
    LET window_start == position - StartRadius - SurroundingSequenceRadius
        window_end == position + EndRadius + SurroundingSequenceRadius
        saved == IF mode \in DOMAIN save_datasets
                 THEN << <<"chr", chrom, window_start, window_end, strand,
                           FeatureIndices(retrieved_targets, NFeatures)>> >>
                 ELSE <<>>
    IN  IF NoFeatures(retrieved_targets)
        THEN [is_none |-> TRUE, output |-> <<>>, saved |-> <<>>]
        ELSE IF retrieved_seq.shape0 = 0 \/ UnambiguousTooLow(retrieved_seq)
        THEN [is_none |-> TRUE, output |-> <<>>, saved |-> saved]
        ELSE [is_none |-> FALSE,
              output |-> <<retrieved_seq, retrieved_targets>>,
              saved |-> saved]

\* The result of _retrieve(chrom, position) when the label collaborator
\* returns retrieved_targets, random.randint picks strand and the genome
\* returns retrieved_seq: is_none tells a None result from
\* (retrieved_seq, retrieved_targets), saved holds the record appended to
\* save_datasets[mode], if any.
_retrieve(chrom, position, retrieved_targets, strand, retrieved_seq) ==
    LET bin_start == position - StartRadius
        bin_end == position + EndRadius
        window_start == bin_start - SurroundingSequenceRadius
        window_end == bin_end + SurroundingSequenceRadius
        rejected == [is_none |-> TRUE, output |-> <<>>, saved |-> <<>>]
    IN  IF NoFeatures(retrieved_targets) THEN rejected
        ELSE IF retrieved_seq.shape0 = 0 THEN rejected
        ELSE IF UnambiguousTooLow(retrieved_seq) THEN rejected
        ELSE [is_none |-> FALSE,
              output |-> <<retrieved_seq, retrieved_targets>>,
              saved |-> IF mode \in DOMAIN save_datasets
                        THEN << <<"chr", chrom, window_start, window_end, strand,
                                  FeatureIndices(retrieved_targets, NFeatures)>> >>
                        ELSE <<>>]

(***************************************************************************)
(* sample                                                                  *)
(***************************************************************************)
\* the call and lines 238-240
SampleBegin(b) ==
    /\ pc \in {"ready", "returned"}
    /\ b \in 0..MaxBatch
    /\ (mode \in DOMAIN save_datasets
            => Len(save_datasets[mode]) + b <= MaxLog)
    /\ pc' = "sample"
    /\ batch_size' = b
    /\ n_samples_drawn' = 0
    /\ sequences' = [r \in 1..b |-> ZeroSequence]
    /\ targets' = [r \in 1..b |-> ZeroTargets]
    /\ writes' = <<>>
    /\ draw' = NoDraw
    /\ UNCHANGED <<config_vars, sample_from_intervals, interval_lengths,
                   sample_from_mode, randcache, mode, save_datasets, sel_vars, variant_vars, data>>

\* a mutation of CacheExhausted: the cursor is compared with the length + 1
CacheExhaustedLate(sample_index) ==
    sample_index = Len(sample_from_mode[mode].indices) + 1

\* sample_index == len(self._sample_from_mode[self.mode].indices)
CacheExhausted(sample_index) ==
    sample_index = Len(sample_from_mode[mode].indices)

\* an exception leaves sample(): nothing is returned
SampleRaises(rc, refilled, at) ==
    /\ pc' = "error"
    /\ randcache' = rc
    /\ draw' = [kind |-> "raised", refilled |-> refilled, sample_index |-> at,
                rand_interval_index |-> 0]
    /\ UNCHANGED <<batch_size, n_samples_drawn, sequences, targets, writes,
                   save_datasets>>

\* a mutation of RowWritten: the row is the count after the increment
RowAfterIncrement(n) == IF n + 1 < batch_size THEN n + 1 ELSE n

\* the row that sequences[n_samples_drawn, :, :] = seq assigns
RowWritten(n) == n

\* lines 258-264 for one result of _retrieve
SampleTake(rc, refilled, sample_index, rand_interval_index, retrieve_output) ==
    /\ randcache' = rc
    /\ save_datasets' =
          IF retrieve_output.saved = <<>> THEN save_datasets
          ELSE [save_datasets EXCEPT ![mode] = @ \o retrieve_output.saved]
    /\ IF retrieve_output.is_none
       THEN /\ draw' = [kind |-> "rejected", refilled |-> refilled,
                        sample_index |-> sample_index,
                        rand_interval_index |-> rand_interval_index]
            /\ UNCHANGED <<n_samples_drawn, sequences, targets, writes>>
       ELSE LET row == RowWritten(n_samples_drawn)
            IN  /\ sequences' =
                      [sequences EXCEPT ![row + 1] = retrieve_output.output[1]]
                /\ targets' =
                      [targets EXCEPT ![row + 1] = retrieve_output.output[2]]
                /\ writes' = Append(writes, row)
                /\ n_samples_drawn' = n_samples_drawn + 1
                /\ draw' = [kind |-> "accepted", refilled |-> refilled,
                            sample_index |-> sample_index,
                            rand_interval_index |-> rand_interval_index]
    /\ UNCHANGED <<pc, batch_size>>

\* one iteration of the while loop, lines 241-264
\* the cursor of every mode is advanced
AdvanceEveryCursor(rc) ==
    [m \in DOMAIN rc |-> [rc[m] EXCEPT !.sample_next = @ + 1]]

\* self._randcache[self.mode]["sample_next"] += 1
AdvanceCursor(rc) == [rc EXCEPT ![mode].sample_next = @ + 1]

SampleIter ==
    /\ pc = "sample"
    /\ n_samples_drawn < batch_size
    /\ LET cursor == randcache[mode].sample_next
           refill == CacheExhausted(cursor)
       IN  IF refill /\ UpdateRandcacheRaises(mode)
           THEN SampleRaises(randcache, FALSE, cursor)
           ELSE \E entry \in (IF refill THEN UpdateRandcacheResults(mode)
                                       ELSE {randcache[mode]}) :
                  LET sample_index == IF refill THEN 0 ELSE cursor
                      read == [randcache EXCEPT ![mode] = entry]
                  IN  IF \/ ~entry.filled
                         \/ sample_index >= Len(entry.cache_indices)
                      THEN SampleRaises(read, refill, sample_index)
                      ELSE
                      LET rand_interval_index ==
                              entry.cache_indices[sample_index + 1]
                          rc == AdvanceCursor(read)
                      IN  IF rand_interval_index >= Len(sample_from_intervals)
                          THEN SampleRaises(rc, refill, sample_index)
                          ELSE
                          LET interval_info ==
                                  sample_from_intervals[rand_interval_index + 1]
                              interval_length ==
                                  interval_lengths[rand_interval_index + 1]
                              chrom == interval_info[1]
                          IN  \E offset \in PositionOffsets(interval_length),
                                 retrieved_targets \in LabelVectors,
                                 s \in 1..Len(STRAND_SIDES),
                                 retrieved_seq \in Encodings :
                                SampleTake(rc, refill, sample_index,
                                    rand_interval_index,
                                    _retrieve(chrom, interval_info[2] + offset,
                                              retrieved_targets,
                                              STRAND_SIDES[s], retrieved_seq))
    /\ UNCHANGED <<config_vars, sample_from_intervals, interval_lengths,
                   sample_from_mode, mode, sel_vars, variant_vars, data>>

\* the loop ends: return (sequences, targets)
SampleReturn ==
    /\ pc = "sample"
    /\ ~(n_samples_drawn < batch_size)
    /\ pc' = IF data.active THEN "collect" ELSE "returned"
    /\ UNCHANGED <<config_vars, sample_from_intervals, interval_lengths,
                   sample_from_mode, randcache, mode, save_datasets,
                   batch_size, n_samples_drawn, sequences, targets, writes,
                   draw, sel_vars, variant_vars, data>>

Next ==
    \/ _partition_dataset_proportion
    \/ _partition_dataset_chromosome
    \/ InitRandcache
    \/ \E m \in Range(AllModes) : set_mode(m)
    \/ \E b \in 0..MaxBatch : SampleBegin(b)
    \/ SampleIter
    \/ SampleReturn

Spec == Init /\ [][Next]_vars

(***************************************************************************)
(* _get_indices_and_probabilities on its own: every table of at most       *)
(* MaxIntervals lengths and every list of distinct indices into it.        *)
(***************************************************************************)
SelInputs ==
    UNION {[interval_lengths : [1..n -> 0..MaxLen],
            indices : DistinctSeqs(0..(n - 1))] : n \in 0..MaxIntervals}

SelInit ==
    /\ pc = "select"
    /\ sel_in \in SelInputs
    /\ sel_out = NoSampleIndices
    /\ call = NoCall
    /\ result = NoCall
    /\ data = NoData
    /\ holdout_type = "chromosome"
    /\ validation_holdout = DefaultValidationHoldout
    /\ test_holdout = NoHoldout
    /\ intervals_file = <<>>
    /\ sample_negative = FALSE
    /\ label_source = "zero"
    /\ sample_from_intervals = <<>>
    /\ interval_lengths = <<>>
    /\ sample_from_mode = [m \in ModeSet |-> NoSampleIndices]
    /\ randcache = [m \in ModeSet |-> NoCache]
    /\ mode = "train"
    /\ save_datasets = [m \in {"test"} |-> <<>>]
    /\ batch_size = 0
    /\ n_samples_drawn = 0
    /\ sequences = <<>>
    /\ targets = <<>>
    /\ writes = <<>>
    /\ draw = NoDraw

Select ==
    /\ pc = "select"
    /\ sel_out' = _get_indices_and_probabilities(sel_in.interval_lengths,
                                                 sel_in.indices)
    /\ pc' = "selected"
    /\ UNCHANGED <<config_vars, sample_from_intervals, interval_lengths,
                   sample_from_mode, randcache, mode, save_datasets,
                   sample_vars, sel_in, variant_vars, data>>

SelNext == Select

SelSpec == SelInit /\ [][SelNext]_vars

(***************************************************************************)
(* Properties.                                                             *)
(***************************************************************************)
\* the partition is done: _sample_from_mode holds every mode's SampleIndices
Partitioned == pc \in {"fill", "ready", "sample", "returned", "error"}

\* the constructor has returned
Constructed == pc \in {"ready", "sample", "returned"}

Indices(m) == sample_from_mode[m].indices

\* C1, as stated: for every interval-length table and every candidate subset
\* of indices, the weights returned by _get_indices_and_probabilities sum to
\* 1, also when the subset is empty or holds only zero-length intervals.
C1_WeightsAlwaysSumToOne ==
    pc = "selected" =>
        LET s == WeightSum(sel_out.weights) IN s.den > 0 /\ s.num = s.den

\* C1, amended: the returned weights sum to 1 whenever the subset holds an
\* interval of non-zero length; when the subset is empty or holds only
\* zero-length intervals the returned indices and weights are both empty.
C1_WeightsSumToOneUnlessEmpty ==
    pc = "selected" =>
        LET s == WeightSum(sel_out.weights)
            positive == \E k \in 1..Len(sel_in.indices) :
                            sel_in.interval_lengths[sel_in.indices[k] + 1] > 0
        IN  /\ Len(sel_out.weights) = Len(sel_out.indices)
            /\ positive => (sel_out.indices # <<>> /\ s.den > 0 /\ s.num = s.den)
            /\ ~positive => (sel_out.indices = <<>> /\ sel_out.weights = <<>>)

\* a subset from which a zero-length interval was pruned and two were kept
C1_Witness ==
    /\ pc = "selected"
    /\ Len(sel_out.indices) >= 2
    /\ Len(sel_in.indices) > Len(sel_out.indices)

\* C2: under either partition strategy every index kept in a mode's
\* SampleIndices has a weight above 1e-10, so a zero-length interval is in no
\* mode's index list, in no mode's cache and is never the interval a draw
\* reads, after any sequence of refills and draws.
C2_KeptWeightsAboveThreshold ==
    Partitioned =>
        \A m \in ModeSet :
            /\ Len(sample_from_mode[m].weights) = Len(Indices(m))
            /\ \A k \in 1..Len(Indices(m)) :
                 LET w == sample_from_mode[m].weights[k]
                 IN  /\ w.den > 0
                     /\ w.num * TenPow5 > w.den \div TenPow5
                     /\ interval_lengths[Indices(m)[k] + 1] # 0
            /\ \A k \in 1..Len(randcache[m].cache_indices) :
                 interval_lengths[randcache[m].cache_indices[k] + 1] # 0
            /\ (m = mode /\ draw.kind \in {"accepted", "rejected"})
                 => interval_lengths[draw.rand_interval_index + 1] # 0

\* a zero-length interval is loaded and a draw after a refill in sample()
C2_Witness ==
    /\ pc = "sample"
    /\ \E k \in 1..Len(interval_lengths) : interval_lengths[k] = 0
    /\ draw.kind = "rejected"
    /\ draw.refilled

\* the index lists of the modes, "test" being absent without a test holdout
ModeIndexSet(m) == IF m \in ModeSet THEN Range(Indices(m)) ELSE {}
ModeIndexCount(m) == IF m \in ModeSet THEN Len(Indices(m)) ELSE 0

PairwiseDisjoint ==
    \A m1, m2 \in Range(AllModes) :
        m1 # m2 => ModeIndexSet(m1) \cap ModeIndexSet(m2) = {}

LoadedIndices == 0..(Len(sample_from_intervals) - 1)

\* C3, as stated: under proportional split the validate, test and train
\* index lists are pairwise disjoint and their sizes add up to N: their union
\* is exactly all loaded interval indices.
C3_PartitionCoversAll ==
    (Partitioned /\ holdout_type = "proportion") =>
        /\ PairwiseDisjoint
        /\ ModeIndexCount("validate") + ModeIndexCount("test")
              + ModeIndexCount("train") = Len(sample_from_intervals)
        /\ UNION {ModeIndexSet(m) : m \in Range(AllModes)} = LoadedIndices

\* C3, amended: under proportional split the three index lists are pairwise
\* disjoint, hold no index twice, and their union is exactly the loaded
\* interval indices of non-zero length; their sizes add up to N less the
\* number of zero-length intervals.
C3_PartitionCoversNonZero ==
    (Partitioned /\ holdout_type = "proportion") =>
        LET nonzero == {i \in LoadedIndices : interval_lengths[i + 1] # 0}
        IN  /\ PairwiseDisjoint
            /\ ModeIndexCount("validate") + ModeIndexCount("test")
                  + ModeIndexCount("train") = Cardinality(nonzero)
            /\ UNION {ModeIndexSet(m) : m \in Range(AllModes)} = nonzero

\* a proportional split of a file with a zero-length interval that leaves
\* no mode empty
C3_Witness ==
    /\ pc = "ready"
    /\ holdout_type = "proportion"
    /\ \E i \in LoadedIndices : interval_lengths[i + 1] = 0
    /\ \A m \in ModeSet : Len(Indices(m)) >= 1

\* the mode the chromosome of interval i stands for
ChromosomeModeOf(i) ==
    LET chrom == sample_from_intervals[i + 1][1]
    IN  IF chrom \in validation_holdout.chroms THEN "validate"
        ELSE IF test_holdout.kind = "list" /\ chrom \in test_holdout.chroms
             THEN "test"
             ELSE "train"

NoIndexTwice ==
    /\ PairwiseDisjoint
    /\ \A m \in ModeSet : Cardinality(Range(Indices(m))) = Len(Indices(m))

\* C4, as stated: under chromosome split no interval index is in two modes
\* and every interval is in the mode its chromosome name stands for:
\* validate, else test if a test set is configured and holds it, else train.
C4_EveryIntervalInChromosomeMode ==
    (Partitioned /\ holdout_type = "chromosome") =>
        /\ NoIndexTwice
        /\ \A i \in LoadedIndices : i \in ModeIndexSet(ChromosomeModeOf(i))

\* C4, amended: under chromosome split no interval index is in two modes,
\* every index kept in a mode is in the mode its chromosome name stands for,
\* every interval of non-zero length is kept, and an interval of length 0
\* is in no mode.
C4_KeptIntervalInChromosomeMode ==
    (Partitioned /\ holdout_type = "chromosome") =>
        /\ NoIndexTwice
        /\ \A m \in ModeSet : \A i \in Range(Indices(m)) :
              i \in LoadedIndices /\ ChromosomeModeOf(i) = m
        /\ \A i \in LoadedIndices :
              IF interval_lengths[i + 1] # 0
              THEN i \in ModeIndexSet(ChromosomeModeOf(i))
              ELSE \A m \in ModeSet : i \notin Range(Indices(m))

\* a chromosome split with a test set, an interval kept in test, one kept in
\* train and a zero-length interval
C4_Witness ==
    /\ Partitioned
    /\ holdout_type = "chromosome"
    /\ "test" \in ModeSet
    /\ Len(Indices("test")) >= 1
    /\ Len(Indices("train")) >= 1
    /\ \E i \in LoadedIndices : interval_lengths[i + 1] = 0

\* C5: for a mode of partition size N, a refill followed by N draws in
\* sample() never raises, and every interval index read from the cache is
\* one of the mode's kept indices, across any number of refills and draws.
C5_DrawsStayInPartition ==
    /\ draw.kind # "raised"
    /\ Constructed =>
          /\ \A m \in ModeSet :
                /\ randcache[m].filled
                /\ Len(randcache[m].cache_indices) = Len(Indices(m))
                /\ Range(randcache[m].cache_indices) \subseteq Range(Indices(m))
          /\ draw.kind \in {"accepted", "rejected"} =>
                draw.rand_interval_index \in Range(Indices(mode))

\* the draw that follows N draws of a mode with N >= 2: it refilled the cache
C5_Witness ==
    /\ pc = "sample"
    /\ Len(Indices(mode)) >= 2
    /\ draw.kind = "rejected"
    /\ draw.refilled
    /\ draw.rand_interval_index \in Range(Indices(mode))

CursorInRange ==
    Constructed =>
        \A m \in ModeSet :
            /\ 0 <= randcache[m].sample_next
            /\ randcache[m].sample_next <= Len(randcache[m].cache_indices)

\* an iteration of the loop of sample() that starts with the cursor at the
\* end of the cache refills it and reads its first entry
RefillBeforeRead ==
    (/\ pc = "sample"
     /\ n_samples_drawn < batch_size
     /\ randcache[mode].sample_next = Len(randcache[mode].cache_indices))
        => /\ draw'.kind \in {"accepted", "rejected"}
           /\ draw'.refilled
           /\ draw'.sample_index = 0
           /\ randcache'[mode].sample_next = 1
           /\ draw'.rand_interval_index = randcache'[mode].cache_indices[1]

\* C6: in every reachable state and for every mode, 0 <= sample_next <=
\* length of the mode's cache, and when sample_next equals the cache length
\* the next draw in that mode refills the cache and resets the cursor to 0
\* before a cache entry is read.
C6_CursorWithinCache == [](CursorInRange) /\ [][RefillBeforeRead]_vars

\* a draw that found the cursor at the end of a cache of two or more entries
C6_Witness ==
    /\ pc = "sample"
    /\ draw.kind = "rejected"
    /\ draw.refilled
    /\ draw.sample_index = 0
    /\ randcache[mode].sample_next = 1
    /\ Len(randcache[mode].cache_indices) >= 2

RowsInOrder ==
    pc \in {"sample", "returned"} =>
        /\ Len(sequences) = batch_size
        /\ Len(targets) = batch_size
        /\ n_samples_drawn <= batch_size
        /\ Len(writes) = n_samples_drawn
        /\ \A k \in 1..Len(writes) : writes[k] = k - 1
        /\ \A r \in (n_samples_drawn + 1)..batch_size :
              sequences[r] = ZeroSequence /\ targets[r] = ZeroTargets
        /\ \A r \in 1..n_samples_drawn : sequences[r] # ZeroSequence

FullBatchOnReturn ==
    pc = "returned" => n_samples_drawn = batch_size

RejectedWritesNothing ==
    (pc = "sample" /\ draw'.kind = "rejected")
        => UNCHANGED <<sequences, targets, writes, n_samples_drawn>>

\* C7: sample(batch_size) never returns a partial batch: when it returns,
\* exactly batch_size draws were accepted, the k-th accepted example was
\* written to row k-1, every row was written exactly once and no rejected
\* draw wrote a row.
C7_NoPartialBatch ==
    /\ [](RowsInOrder /\ FullBatchOnReturn)
    /\ [][RejectedWritesNothing]_vars

\* a returned batch of two or more rows
C7_Witness ==
    /\ pc = "returned"
    /\ batch_size >= 2
    /\ writes = [k \in 1..batch_size |-> k - 1]

AllDrawsRejected ==
    /\ pc = "sample"
    /\ batch_size >= 1
    /\ ~sample_negative
    /\ label_source = "zero"

\* the loop of sample() keeps running: an iteration is taken whenever one
\* is possible
FairSpec == Spec /\ WF_vars(SampleIter) /\ WF_vars(SampleReturn)

\* C9: with sample_negative off and a label source that returns an all-zero
\* vector for every region, sample(batch_size >= 1) never returns: the
\* number of accepted examples stays 0 for ever while draws and cache
\* refills go on without bound.
C9_NeverReturns ==
    [](AllDrawsRejected =>
          /\ [](pc = "sample" /\ n_samples_drawn = 0)
          /\ []<>(draw.kind = "rejected" /\ draw.refilled)
          /\ []<>(draw.kind = "rejected" /\ randcache[mode].sample_next >= 1))

\* a rejected draw that refilled the cache, nothing accepted
C9_Witness ==
    /\ AllDrawsRejected
    /\ n_samples_drawn = 0
    /\ draw.kind = "rejected"
    /\ draw.refilled
    /\ Len(Indices(mode)) >= 2

\* C10: if a mode's kept index list is empty, the refill of that mode
\* raises: no draw in that mode reads an interval index, no example is
\* returned, and sample() never returns from an empty cache.
C10_EmptyModeRaises ==
    (Partitioned /\ \E m \in ModeSet : Indices(m) = <<>>) =>
        /\ pc \in {"fill", "error"}
        /\ draw.kind \in {"none", "raised"}
        /\ n_samples_drawn = 0
        /\ \A m \in ModeSet :
              Indices(m) = <<>> => randcache[m].cache_indices = <<>>

\* intervals are loaded, a mode is left without index and the constructor's
\* refill has raised
C10_Witness ==
    /\ pc = "error"
    /\ Len(sample_from_intervals) >= 1
    /\ \E m \in ModeSet : Indices(m) = <<>> /\ ~randcache[m].filled

\* every mode's log keeps the records it has, in place
LogsOnlyGrow ==
    \A m \in DOMAIN save_datasets :
        /\ Len(save_datasets'[m]) >= Len(save_datasets[m])
        /\ SubSeq(save_datasets'[m], 1, Len(save_datasets[m])) = save_datasets[m]

\* the record of the example in batch row n_samples_drawn' - 1, drawn from
\* interval draw'.rand_interval_index: chromosome, a window of
\* SequenceLength positions around a position of the interval, a strand and
\* the indices of the nonzero labels
IsRecordOfAcceptedDraw(record) ==
    LET info == sample_from_intervals[draw'.rand_interval_index + 1]
        labels == targets'[n_samples_drawn']
        lo == info[2] - SurroundingSequenceRadius - StartRadius
    IN  /\ record[1] = "chr"
        /\ record[2] = info[1]
        /\ record[3] >= lo
        /\ record[3] <= lo + (IF info[3] > info[2] THEN info[3] - info[2] - 1 ELSE 0)
        /\ record[4] = record[3] + SequenceLength
        /\ record[5] \in {"+", "-"}
        /\ Len(record[6]) = Cardinality({f \in 1..NFeatures : labels[f] # 0})
        /\ \A k \in 1..Len(record[6]) : labels[record[6][k] + 1] # 0
        /\ \A j, k \in 1..Len(record[6]) : j < k => record[6][j] < record[6][k]

LogStep ==
    /\ LogsOnlyGrow
    /\ IF /\ pc = "sample"
          /\ n_samples_drawn' = n_samples_drawn + 1
          /\ mode \in DOMAIN save_datasets
       THEN /\ Len(save_datasets'[mode]) = Len(save_datasets[mode]) + 1
            /\ IsRecordOfAcceptedDraw(
                   save_datasets'[mode][Len(save_datasets'[mode])])
            /\ \A m \in DOMAIN save_datasets \ {mode} :
                   save_datasets'[m] = save_datasets[m]
       ELSE save_datasets' = save_datasets

\* C11: the saved-dataset log is append-only and grows only on acceptance:
\* an accepted draw in a persisted mode appends exactly one record
\* (chromosome, window_start, window_end, strand, nonzero label indices) to
\* that mode's log; a rejected draw, and a draw in a mode that is not
\* persisted, leaves every log unchanged; no record is removed or modified.
C11_LogAppendOnly == [][LogStep]_vars

\* the log of the test mode holds two records
C11_Witness ==
    /\ pc = "returned"
    /\ mode = "test"
    /\ Len(save_datasets["test"]) >= 2
    /\ draw.kind = "accepted"

(***************************************************************************)
(* Variant effect prediction (_variant_effect_prediction.py).              *)
(*                                                                         *)
(* A sequence of bases is a TLA+ sequence of one-letter strings; an        *)
(* encoding is a sequence of rows, one row per position, one column per    *)
(* base of Bases.  Entries of a row are counted in quarters, so that the   *)
(* row of a known base holds Whole in its column and the row of the        *)
(* unknown base holds one quarter in every column.                         *)
(***************************************************************************)
MaxWindow == 3
MaxAllele == 2

Bases == <<"A", "C", "G", "T">>

UnknownBase == "N"

\* the bases the windows and alleles of the inputs are written with
InputBases == {"A", "C"}

Strands == {"+", "-"}

\* one whole, in quarters
Whole == Len(Bases)

Max(S) == CHOOSE x \in S : \A y \in S : x >= y

\* Python's s[lo:hi]: a negative bound counts from the end, and both bounds
\* are clipped to the sequence
PyBound(i, n) == IF i < 0 THEN Max({i + n, 0}) ELSE Min({i, n})

PySlice(s, lo, hi) ==
    LET a == PyBound(lo, Len(s))
        b == PyBound(hi, Len(s))
    IN  IF a < b THEN SubSeq(s, a + 1, b) ELSE <<>>

\* s[:hi]
PyPrefix(s, hi) == PySlice(s, 0, hi)

\* s[lo:], begun one element early: it keeps the element before lo
PySuffixFromPrevious(s, lo) == PySlice(s, Max({lo - 1, 0}), Len(s))

PySuffix(s, lo) == PySlice(s, lo, Len(s))

\* every sequence over S of a length in lo..hi
SeqsOver(S, lo, hi) == UNION {[1..n -> S] : n \in lo..hi}

Reverse(s) == [k \in 1..Len(s) |-> s[Len(s) + 1 - k]]

Complement(b) ==
    CASE b = "A" -> "T"
      [] b = "T" -> "A"
      [] b = "C" -> "G"
      [] b = "G" -> "C"
      [] OTHER -> UnknownBase

\* the base of the genome at a coordinate; coordinates before the start of
\* the chromosome are padding
GenomeBase(coord) ==
    IF coord < 0 THEN UnknownBase ELSE Bases[(coord % Len(Bases)) + 1]

\* reference_sequence.get_sequence_from_coords(chrom, start, end, strand,
\* pad=True): the bases of [start, end), reverse-complemented on '-'
get_sequence_from_coords(start, end, strand) ==
    LET forward == [k \in 1..Max({end - start, 0}) |->
                        GenomeBase(start + k - 1)]
    IN  IF strand = "-"
        THEN [k \in 1..Len(forward) |-> Complement(Reverse(forward)[k])]
        ELSE forward

\* reference_sequence.sequence_to_encoding
EncodeBase(b) ==
    [i \in 1..Len(Bases) |->
        IF b = Bases[i] THEN Whole
        ELSE IF b \in Range(Bases) THEN 0 ELSE 1]

sequence_to_encoding(sequence) ==
    [k \in 1..Len(sequence) |-> EncodeBase(sequence[k])]

\* reference_sequence.encoding_to_sequence
DecodeRow(row) ==
    IF \E i \in 1..Len(Bases) : row[i] = Whole
    THEN Bases[CHOOSE i \in 1..Len(Bases) : row[i] = Whole]
    ELSE UnknownBase

encoding_to_sequence(encoding) ==
    [k \in 1..Len(encoding) |-> DecodeRow(encoding[k])]

\* _truncate_sequence(sequence, seq_len): the bases past seq_len are dropped
_truncate_sequence(sequence, seq_len) == PyPrefix(sequence, seq_len)

_get_ref_idxs(mid, strand, ref_len) ==
    LET start_pos ==
            IF strand = "-" /\ ref_len > 1
            THEN mid - ((ref_len + 1) \div 2) + 1
            ELSE IF strand = "+" /\ ref_len = 1
            THEN mid - 1
            ELSE IF strand = "+"
            THEN mid - (ref_len \div 2) - 1
            ELSE mid
    IN  [start_pos |-> start_pos, end_pos |-> start_pos + ref_len]

\* '*' and '-' as alternate allele indicate a deletion
NormalizedAlt(alt) == IF alt = <<"*">> \/ alt = <<"-">> THEN <<>> ELSE alt

\* the text _process_alt builds before it encodes it
AltSequence(pos, ref, alt_in, start, end, strand, wt_sequence, start_radius) ==
    LET alt == NormalizedAlt(alt_in)
        ref_len == Len(ref)
        alt_len == Len(alt)
        idxs == _get_ref_idxs(start_radius, strand, ref_len)
        lhs == get_sequence_from_coords(
                   start - (ref_len \div 2) + (alt_len \div 2), pos + 1,
                   strand)
        rhs == get_sequence_from_coords(
                   pos + 1 + ref_len,
                   end + ((ref_len + 1) \div 2) - ((alt_len + 1) \div 2),
                   strand)
    IN  IF alt_len > Len(wt_sequence)
        THEN _truncate_sequence(alt, Len(wt_sequence))
        ELSE IF ref_len = alt_len
        THEN PyPrefix(wt_sequence, idxs.start_pos) \o alt
                 \o PySuffix(wt_sequence, idxs.end_pos)
        ELSE IF alt_len > ref_len
        THEN _truncate_sequence(
                 PyPrefix(wt_sequence, idxs.start_pos) \o alt
                     \o PySuffix(wt_sequence, idxs.start_pos + ref_len),
                 Len(wt_sequence))
        ELSE IF strand = "-"
        THEN rhs \o alt \o lhs
        ELSE lhs \o alt \o rhs

_process_alt(pos, ref, alt, start, end, strand, wt_sequence, start_radius) ==
    sequence_to_encoding(
        AltSequence(pos, ref, alt, start, end, strand, wt_sequence,
                    start_radius))

\* the sampler is not part of a run of a variant effect function
NoSampler ==
    /\ sel_in = NoSelection
    /\ sel_out = NoSampleIndices
    /\ holdout_type = "chromosome"
    /\ validation_holdout = DefaultValidationHoldout
    /\ test_holdout = NoHoldout
    /\ intervals_file = <<>>
    /\ sample_negative = FALSE
    /\ label_source = "zero"
    /\ sample_from_intervals = <<>>
    /\ interval_lengths = <<>>
    /\ sample_from_mode = [m \in ModeSet |-> NoSampleIndices]
    /\ randcache = [m \in ModeSet |-> NoCache]
    /\ mode = "train"
    /\ save_datasets = [m \in {"test"} |-> <<>>]
    /\ batch_size = 0
    /\ n_samples_drawn = 0
    /\ sequences = <<>>
    /\ targets = <<>>
    /\ writes = <<>>
    /\ draw = NoDraw
    /\ data = NoData

sampler_vars == <<config_vars, sample_from_intervals, interval_lengths,
                  sample_from_mode, randcache, mode, save_datasets,
                  sample_vars, sel_vars, data>>

(***************************************************************************)
(* _process_alt on its own: every window of at most MaxWindow bases, every *)
(* start_radius inside it, both strands, every pair of alleles of at most  *)
(* MaxAllele bases, and every variant position inside the window.          *)
(***************************************************************************)
Alleles == SeqsOver(InputBases, 0, MaxAllele)

ProcessAltInputs ==
    {[fn |-> "_process_alt", wt_sequence |-> w, start_radius |-> r,
      strand |-> s, ref |-> ref, alt |-> alt, start |-> 0,
      end |-> Len(w), pos |-> p] :
        w \in SeqsOver(InputBases, 1, MaxWindow), r \in 0..MaxWindow,
        s \in Strands, ref \in Alleles,
        alt \in Alleles \cup {<<"*">>, <<"-">>}, p \in 0..(MaxWindow - 1)}

ProcessAltInit ==
    /\ pc = "call"
    /\ call \in ProcessAltInputs
    /\ call.start_radius <= Len(call.wt_sequence)
    /\ call.pos < call.end
    /\ result = NoCall
    /\ NoSampler

ProcessAlt ==
    /\ pc = "call"
    /\ call.fn = "_process_alt"
    /\ result' = [fn |-> "_process_alt",
                  encoding |-> _process_alt(call.pos, call.ref, call.alt,
                                            call.start, call.end, call.strand,
                                            call.wt_sequence,
                                            call.start_radius)]
    /\ pc' = "done"
    /\ UNCHANGED <<sampler_vars, call>>

ProcessAltNext == ProcessAlt

ProcessAltSpec == ProcessAltInit /\ [][ProcessAltNext]_vars

(***************************************************************************)
(* Properties of _process_alt.                                             *)
(***************************************************************************)
\* _process_alt has returned
ProcessAltDone == pc = "done" /\ call.fn = "_process_alt"

\* the lengths _process_alt dispatches on
RefLen == Len(call.ref)

AltLen == Len(NormalizedAlt(call.alt))

WindowLen == Len(call.wt_sequence)

Substitution == AltLen <= WindowLen /\ RefLen = AltLen

Insertion == AltLen <= WindowLen /\ AltLen > RefLen

\* where the reference allele is expected in the window
RefIdxs == _get_ref_idxs(call.start_radius, call.strand, RefLen)

\* the reference allele lies inside the window
RefInsideWindow == RefIdxs.start_pos >= 0 /\ RefIdxs.end_pos <= WindowLen

\* C12: a substitution returns an encoding as long as the window, and so
\* does an insertion whose alternate allele is not longer than the window,
\* for every window, strand, start_radius and pair of alleles
C12_SpliceKeepsWindowLength ==
    ProcessAltDone /\ (Substitution \/ Insertion)
        => Len(result.encoding) = WindowLen

\* a substitution of an allele one base shorter than the window, on the
\* forward strand, with start_radius the middle of the window
C12_FailingInput ==
    /\ ProcessAltDone
    /\ Substitution
    /\ call.strand = "+"
    /\ WindowLen = 3
    /\ call.start_radius = 1
    /\ RefLen = 2
    /\ Len(result.encoding) = 6

\* C13 as stated: a variant whose alternate allele is its reference allele
\* returns the encoding of the window it was given, for every window,
\* strand, start_radius and allele
C13_NoOpReturnsWindow ==
    ProcessAltDone /\ call.alt = call.ref
        => result.encoding = sequence_to_encoding(call.wt_sequence)

\* the window holds the reference allele where _get_ref_idxs expects it
WindowHoldsRef ==
    /\ RefInsideWindow
    /\ SubSeq(call.wt_sequence, RefIdxs.start_pos + 1, RefIdxs.end_pos)
           = call.ref

\* C13, amended: a variant whose alternate allele is its reference allele,
\* no longer than the window, returns the encoding of the window exactly
\* when the allele is empty or the window holds it, inside the window, at
\* the offset of _get_ref_idxs
C13_NoOpReturnsWindowHoldingRef ==
    ProcessAltDone /\ call.alt = call.ref /\ RefLen <= WindowLen
        => (result.encoding = sequence_to_encoding(call.wt_sequence)
                <=> (call.ref = <<>> \/ WindowHoldsRef))

C13_Witness ==
    /\ ProcessAltDone
    /\ call.alt = call.ref
    /\ RefLen = 2
    /\ WindowHoldsRef
    /\ result.encoding = sequence_to_encoding(call.wt_sequence)

(***************************************************************************)
(* _handle_standard_ref: the check of the reference allele against the     *)
(* window, which overwrites the window where they differ.                  *)
(***************************************************************************)
\* np.array_equal: the same shape and the same entries
array_equal(a, b) == a = b

\* seq_encoding[start_pos:start_pos + ref_len, :], which ends at the next row
SequenceEncodingAtRefToNext(seq_encoding, mid, strand, ref_len) ==
    LET start_pos == _get_ref_idxs(mid, strand, ref_len).start_pos
    IN  PySlice(seq_encoding, start_pos, start_pos + ref_len + 1)

\* seq_encoding[start_pos:start_pos + ref_len, :]
SequenceEncodingAtRef(seq_encoding, mid, strand, ref_len) ==
    LET start_pos == _get_ref_idxs(mid, strand, ref_len).start_pos
    IN  PySlice(seq_encoding, start_pos, start_pos + ref_len)

\* seq_encoding[lo:hi, :] = rows, for rows as many as the slice or one row
\* that numpy repeats over the slice
SliceAssigned(seq_encoding, lo, hi, rows) ==
    LET a == PyBound(lo, Len(seq_encoding))
        b == PyBound(hi, Len(seq_encoding))
    IN  [k \in 1..Len(seq_encoding) |->
            IF a < k /\ k <= b
            THEN (IF Len(rows) = 1 THEN rows[1] ELSE rows[k - a])
            ELSE seq_encoding[k]]

\* numpy raises ValueError when the rows cannot be broadcast to the slice
SliceAssignRaises(seq_encoding, lo, hi, rows) ==
    /\ Len(rows) # Len(PySlice(seq_encoding, lo, hi))
    /\ Len(rows) # 1

_handle_standard_ref(ref_encoding, seq_encoding, mid, strand) ==
    LET ref_len == Len(ref_encoding)
        start_pos == _get_ref_idxs(mid, strand, ref_len).start_pos
        sequence_encoding_at_ref ==
            SequenceEncodingAtRef(seq_encoding, mid, strand, ref_len)
        references_match == array_equal(sequence_encoding_at_ref, ref_encoding)
    IN  [fn |-> "_handle_standard_ref",
         raises |-> /\ ~references_match
                    /\ SliceAssignRaises(seq_encoding, start_pos,
                                         start_pos + ref_len, ref_encoding),
         references_match |-> references_match,
         seq_encoding |->
             IF references_match
                \/ SliceAssignRaises(seq_encoding, start_pos,
                                     start_pos + ref_len, ref_encoding)
             THEN seq_encoding
             ELSE SliceAssigned(seq_encoding, start_pos, start_pos + ref_len,
                                ref_encoding),
         sequence_at_ref |-> encoding_to_sequence(sequence_encoding_at_ref)]

(***************************************************************************)
(* _handle_standard_ref on its own: every window of at most MaxWindow      *)
(* bases, every reference allele of at most MaxAllele bases, every mid     *)
(* inside the window and both strands.                                     *)
(***************************************************************************)
StandardRefInputs ==
    {[fn |-> "_handle_standard_ref",
      ref_encoding |-> sequence_to_encoding(ref),
      seq_encoding |-> sequence_to_encoding(w),
      mid |-> m, strand |-> s] :
        ref \in Alleles, w \in SeqsOver(InputBases, 1, MaxWindow),
        m \in 0..MaxWindow, s \in Strands}

StandardRefInit ==
    /\ pc = "call"
    /\ call \in StandardRefInputs
    /\ call.mid <= Len(call.seq_encoding)
    /\ result = NoCall
    /\ NoSampler

HandleStandardRef ==
    /\ pc = "call"
    /\ call.fn = "_handle_standard_ref"
    /\ LET r == _handle_standard_ref(call.ref_encoding, call.seq_encoding,
                                     call.mid, call.strand)
       IN  /\ result' = r
           /\ pc' = IF r.raises THEN "raised" ELSE "done"
    /\ UNCHANGED <<sampler_vars, call>>

StandardRefNext == HandleStandardRef

StandardRefSpec == StandardRefInit /\ [][StandardRefNext]_vars

(***************************************************************************)
(* Properties of _handle_standard_ref.                                     *)
(***************************************************************************)
\* _handle_standard_ref has returned or raised
StandardRefEnded ==
    pc \in {"done", "raised"} /\ call.fn = "_handle_standard_ref"

\* where the declared reference allele is expected in the window
DeclaredIdxs ==
    _get_ref_idxs(call.mid, call.strand, Len(call.ref_encoding))

\* the window holds the declared reference allele at that offset
WindowHoldsDeclaredRef ==
    /\ DeclaredIdxs.start_pos >= 0
    /\ DeclaredIdxs.end_pos <= Len(call.seq_encoding)
    /\ \A k \in 1..Len(call.ref_encoding) :
           call.seq_encoding[DeclaredIdxs.start_pos + k] = call.ref_encoding[k]

\* C14: when the window holds the declared reference allele at the offset of
\* _get_ref_idxs(mid, strand, ref_len), _handle_standard_ref returns
\* matched = True and the window as it was given
C14_MatchLeavesWindow ==
    StandardRefEnded /\ WindowHoldsDeclaredRef
        => /\ pc = "done"
           /\ result.references_match
           /\ result.seq_encoding = call.seq_encoding

C14_Witness ==
    /\ StandardRefEnded
    /\ WindowHoldsDeclaredRef
    /\ Len(call.ref_encoding) = 2
    /\ result.references_match

\* C17: when the window does not hold the declared reference allele at the
\* offset, _handle_standard_ref returns matched = False, the returned window
\* holds the declared reference at [start_pos, start_pos + ref_len) and is
\* unchanged elsewhere, the returned text is the allele observed there
\* before the overwrite, and a second check of the returned window matches
C17_MismatchPatchesWindow ==
    StandardRefEnded /\ ~WindowHoldsDeclaredRef
        => /\ pc = "done"
           /\ ~result.references_match
           /\ Len(result.seq_encoding) = Len(call.seq_encoding)
           /\ \A k \in 1..Len(result.seq_encoding) :
                  result.seq_encoding[k] =
                      IF DeclaredIdxs.start_pos < k /\ k <= DeclaredIdxs.end_pos
                      THEN call.ref_encoding[k - DeclaredIdxs.start_pos]
                      ELSE call.seq_encoding[k]
           /\ result.sequence_at_ref =
                  encoding_to_sequence(
                      SequenceEncodingAtRef(call.seq_encoding, call.mid,
                                            call.strand,
                                            Len(call.ref_encoding)))
           /\ _handle_standard_ref(call.ref_encoding, result.seq_encoding,
                                   call.mid, call.strand).references_match

\* a 2-base reference allele in a 3-base window with mid the middle of the
\* window, on the forward strand: the overwrite raises
C17_FailingInput ==
    /\ StandardRefEnded
    /\ Len(call.seq_encoding) = 3
    /\ call.mid = 1
    /\ call.strand = "+"
    /\ Len(call.ref_encoding) = 2
    /\ pc = "raised"

(***************************************************************************)
(* _handle_ref_alt_predictions: two calls of the model, then one call of   *)
(* every reporter.  result.calls is the list of the calls made so far to   *)
(* the model and to the reporters.                                         *)
(***************************************************************************)
MaxReporters == 2

\* predict(model, batch): the model is a function of each window of the batch
predict(batch) == [k \in 1..Len(batch) |-> [output_of |-> batch[k]]]

PredictCall(batch) == [callee |-> "predict", reporter |-> 0, args |-> <<batch>>]

\* every reporter is given the reference outputs
ReporterArgsAlwaysBase(needs_base_pred, alt_outputs, batch_ids, ref_outputs) ==
    <<alt_outputs, batch_ids, ref_outputs>>

\* the arguments of r.handle_batch_predictions
ReporterArgs(needs_base_pred, alt_outputs, batch_ids, ref_outputs) ==
    IF needs_base_pred
    THEN <<alt_outputs, batch_ids, ref_outputs>>
    ELSE <<alt_outputs, batch_ids>>

ReporterCall(r, args) ==
    [callee |-> "handle_batch_predictions", reporter |-> r, args |-> args]

\* the one-base windows a batch is made of
BatchWindows == {sequence_to_encoding(w) : w \in SeqsOver(InputBases, 1, 1)}

PredictionInputs ==
    UNION {[fn : {"_handle_ref_alt_predictions"},
            batch_ref_seqs : [1..n -> BatchWindows],
            batch_alt_seqs : [1..n -> BatchWindows],
            batch_ids : {[k \in 1..n |-> k]},
            reporters : SeqsOver([needs_base_pred : BOOLEAN], 0,
                                 MaxReporters)] : n \in 1..MaxBatch}

PredictionsInit ==
    /\ pc = "call"
    /\ call \in PredictionInputs
    /\ result = [fn |-> "_handle_ref_alt_predictions", calls |-> <<>>,
                 ref_outputs |-> <<>>, alt_outputs |-> <<>>, reported |-> 0]
    /\ NoSampler

\* ref_outputs = predict(model, batch_ref_seqs, use_cuda=use_cuda)
PredictRef ==
    /\ pc = "call"
    /\ call.fn = "_handle_ref_alt_predictions"
    /\ \E fails \in BOOLEAN :
           /\ result' = [result EXCEPT
                  !.calls = Append(@, PredictCall(call.batch_ref_seqs)),
                  !.ref_outputs = IF fails THEN @
                                  ELSE predict(call.batch_ref_seqs)]
           /\ pc' = IF fails THEN "raised" ELSE "predict_alt"
    /\ UNCHANGED <<sampler_vars, call>>

\* alt_outputs = predict(model, batch_alt_seqs, use_cuda=use_cuda)
PredictAlt ==
    /\ pc = "predict_alt"
    /\ \E fails \in BOOLEAN :
           /\ result' = [result EXCEPT
                  !.calls = Append(@, PredictCall(call.batch_alt_seqs)),
                  !.alt_outputs = IF fails THEN @
                                  ELSE predict(call.batch_alt_seqs)]
           /\ pc' = IF fails THEN "raised" ELSE "report"
    /\ UNCHANGED <<sampler_vars, call>>

\* one iteration of the loop over the reporters
Report ==
    /\ pc = "report"
    /\ result.reported < Len(call.reporters)
    /\ LET r == result.reported + 1
       IN  result' = [result EXCEPT
               !.calls = Append(@, ReporterCall(r,
                             ReporterArgs(call.reporters[r].needs_base_pred,
                                          result.alt_outputs, call.batch_ids,
                                          result.ref_outputs))),
               !.reported = r]
    /\ UNCHANGED <<sampler_vars, call, pc>>

\* the loop is over: _handle_ref_alt_predictions returns
PredictionsReturn ==
    /\ pc = "report"
    /\ result.reported = Len(call.reporters)
    /\ pc' = "done"
    /\ UNCHANGED <<sampler_vars, variant_vars>>

PredictionsNext ==
    \/ PredictRef
    \/ PredictAlt
    \/ Report
    \/ PredictionsReturn

PredictionsSpec == PredictionsInit /\ [][PredictionsNext]_vars

(***************************************************************************)
(* Properties of _handle_ref_alt_predictions.                              *)
(***************************************************************************)
\* the calls of a run in which the model does not fail
ExpectedCalls ==
    <<PredictCall(call.batch_ref_seqs), PredictCall(call.batch_alt_seqs)>>
    \o [r \in 1..Len(call.reporters) |->
            ReporterCall(r,
                IF call.reporters[r].needs_base_pred
                THEN <<predict(call.batch_alt_seqs), call.batch_ids,
                       predict(call.batch_ref_seqs)>>
                ELSE <<predict(call.batch_alt_seqs), call.batch_ids>>)]

\* C15: the model is called on the reference batch and then on the alternate
\* batch, once each; then every reporter is called once, in list order, with
\* (alt outputs, ids, ref outputs) when it needs the base prediction and
\* (alt outputs, ids) otherwise; when a call of the model fails no reporter
\* is called and the model is not called again
C15_ModelTwiceThenReporters ==
    call.fn = "_handle_ref_alt_predictions"
        => /\ Len(result.calls) <= Len(ExpectedCalls)
           /\ result.calls = SubSeq(ExpectedCalls, 1, Len(result.calls))
           /\ pc = "done" => result.calls = ExpectedCalls
           /\ pc = "raised" => Len(result.calls) <= 2

C15_Witness ==
    /\ call.fn = "_handle_ref_alt_predictions"
    /\ pc = "done"
    /\ Len(call.reporters) = 2
    /\ call.reporters[1].needs_base_pred
    /\ ~call.reporters[2].needs_base_pred
    /\ call.batch_ref_seqs # call.batch_alt_seqs

\* the call of the model on the alternate batch has failed
C15_WitnessModelFails ==
    /\ call.fn = "_handle_ref_alt_predictions"
    /\ pc = "raised"
    /\ Len(result.calls) = 2
    /\ call.reporters # <<>>

(***************************************************************************)
(* read_vcf_file.  A line of the file is a record of its tab-separated     *)
(* columns and of the two substring tests the header loop makes on it.     *)
(***************************************************************************)
MaxLines == 3

VCF_REQUIRED_COLS == <<"#CHROM", "POS", "ID", "REF", "ALT">>

Line(cols, has_hash, has_chrom) ==
    [cols |-> cols, has_hash |-> has_hash, has_chrom |-> has_chrom]

MetaLine == Line(<<"##fileformat=VCFv4.2">>, TRUE, FALSE)

HeaderLine == Line(VCF_REQUIRED_COLS \o <<"STRAND">>, TRUE, TRUE)

MismatchedHeaderLine ==
    Line(<<"#CHROM", "POS", "REF", "ALT", "ID">>, TRUE, TRUE)

ShortLine == Line(<<"chr1", "100">>, FALSE, FALSE)

DataLines ==
    {Line(<<"chr1", "100", "rs1", "A", "G">>, FALSE, FALSE),
     Line(<<"chr1", "100", "rs2", "-", "G,T", "-">>, FALSE, FALSE),
     Line(<<"chr2", "100", "rs3", "A", "*", ".">>, FALSE, FALSE),
     Line(<<"chr2", "100", "rs4", "A", "G", "?">>, FALSE, FALSE)}

FileLines ==
    {MetaLine, HeaderLine, MismatchedHeaderLine, ShortLine} \cup DataLines

\* strand_index: None, or the 0-based column of the strand
StrandIndices == {[is_none |-> TRUE, column |-> 0],
                  [is_none |-> FALSE, column |-> Len(VCF_REQUIRED_COLS)]}

\* int(cols[1]) raises ValueError on a text that is no number
IsInt(text) == text \in {"100"}

IntOf(text) == CASE text = "100" -> 100

\* alt.split(',')
SplitCommas(text) == IF text = "G,T" THEN <<"G", "T">> ELSE <<text>>

\* cols[:5]
FirstCols(cols) == PyPrefix(cols, Len(VCF_REQUIRED_COLS))

\* the 0-based positions at which the header loop breaks
HeaderStops(lines) ==
    {k \in 0..(Len(lines) - 1) :
        ~lines[k + 1].has_hash \/ lines[k + 1].has_chrom}

\* the header loop raises ValueError: it breaks at a #CHROM line of other
\* first five columns
HeaderRaises(lines) ==
    /\ HeaderStops(lines) # {}
    /\ LET line == lines[Min(HeaderStops(lines)) + 1]
       IN  /\ line.has_hash
           /\ line.has_chrom
           /\ FirstCols(line.cols) # VCF_REQUIRED_COLS

\* index after the header loop
HeaderIndex(lines) ==
    IF HeaderStops(lines) = {}
    THEN Max({Len(lines) - 1, 0})
    ELSE LET k == Min(HeaderStops(lines))
         IN  IF lines[k + 1].has_hash THEN k + 1 ELSE k

\* the strand of a data line; "skip" when the line is left out
StrandOf(cols, strand_index) ==
    IF strand_index.is_none THEN "."
    ELSE LET text == cols[strand_index.column + 1]
         IN  IF text = "-" THEN "-"
             ELSE IF text = "+" \/ text = "." THEN "+"
             ELSE "skip"

\* the variants of one data line
LineVariants(cols, strand_index) ==
    LET ref == IF cols[4] = "-" THEN "" ELSE cols[4]
        alts == SplitCommas(cols[5])
    IN  [k \in 1..Len(alts) |->
            <<cols[1], IntOf(cols[2]), cols[3], ref, alts[k],
              StrandOf(cols, strand_index)>>]

\* the exception a data line raises, "none" when it raises none
LineRaises(cols, strand_index) ==
    IF Len(cols) < Len(VCF_REQUIRED_COLS) THEN "none"
    ELSE IF ~IsInt(cols[2]) THEN "ValueError"
    ELSE IF ~strand_index.is_none /\ strand_index.column >= Len(cols)
    THEN "IndexError"
    ELSE "none"

\* the loop over lines[index:]
RECURSIVE ParseLines(_, _, _)
ParseLines(lines, strand_index, variants) ==
    IF lines = <<>> THEN [raises |-> "none", variants |-> variants]
    ELSE LET cols == Head(lines).cols
         IN  IF LineRaises(cols, strand_index) # "none"
             THEN [raises |-> LineRaises(cols, strand_index),
                   variants |-> <<>>]
             ELSE IF \/ Len(cols) < Len(VCF_REQUIRED_COLS)
                     \/ StrandOf(cols, strand_index) = "skip"
             THEN ParseLines(Tail(lines), strand_index, variants)
             ELSE ParseLines(Tail(lines), strand_index,
                             variants \o LineVariants(cols, strand_index))

read_vcf_file(lines, strand_index) ==
    IF HeaderRaises(lines)
    THEN [raises |-> "ValueError", variants |-> <<>>]
    ELSE ParseLines(PySuffix(lines, HeaderIndex(lines)), strand_index, <<>>)

(***************************************************************************)
(* read_vcf_file on its own: every file of at most MaxLines lines, with    *)
(* and without a strand column.                                            *)
(***************************************************************************)
VcfInit ==
    /\ pc = "call"
    /\ call \in [fn : {"read_vcf_file"},
                 lines : SeqsOver(FileLines, 0, MaxLines),
                 strand_index : StrandIndices]
    /\ result = NoCall
    /\ NoSampler

ReadVcfFile ==
    /\ pc = "call"
    /\ call.fn = "read_vcf_file"
    /\ LET r == read_vcf_file(call.lines, call.strand_index)
       IN  /\ result' = [fn |-> "read_vcf_file", raises |-> r.raises,
                         variants |-> r.variants]
           /\ pc' = IF r.raises = "none" THEN "done" ELSE "raised"
    /\ UNCHANGED <<sampler_vars, call>>

VcfNext == ReadVcfFile

VcfSpec == VcfInit /\ [][VcfNext]_vars

(***************************************************************************)
(* Properties of read_vcf_file.                                            *)
(***************************************************************************)
\* read_vcf_file has returned or raised
VcfEnded == pc \in {"done", "raised"} /\ call.fn = "read_vcf_file"

\* the #CHROM lines of the file
ChromLines == {k \in 1..Len(call.lines) : call.lines[k].has_chrom}

\* C16: a file is accepted only if it has a #CHROM line whose first five
\* columns are #CHROM, POS, ID, REF, ALT; a file whose #CHROM line has other
\* first five columns raises ValueError, and a file with no #CHROM line is
\* refused as well
C16_AcceptedOnlyWithHeader ==
    VcfEnded
        => /\ pc = "done" =>
                  \E k \in ChromLines :
                      FirstCols(call.lines[k].cols) = VCF_REQUIRED_COLS
           /\ (\E k \in ChromLines :
                   FirstCols(call.lines[k].cols) # VCF_REQUIRED_COLS)
                  => pc = "raised" /\ result.raises = "ValueError"
           /\ ChromLines = {} => pc = "raised"

\* a file of one data line and no header is read
C16_FailingInput ==
    /\ VcfEnded
    /\ Len(call.lines) = 1
    /\ call.lines[1] \in DataLines
    /\ pc = "done"
    /\ Len(result.variants) = 1

\* what the header loop does ensure: when the lines before the first line
\* without '#' hold a #CHROM line, the first of them has the five columns or
\* ValueError is raised
C16_LeadingHeaderChecked ==
    VcfEnded /\ HeaderStops(call.lines) # {}
        => LET line == call.lines[Min(HeaderStops(call.lines)) + 1]
           IN  line.has_chrom /\ FirstCols(line.cols) # VCF_REQUIRED_COLS
                   => pc = "raised" /\ result.raises = "ValueError"

(***************************************************************************)
(* _handle_long_ref: the check of a reference allele wider than the        *)
(* window, which replaces the window where they differ.                    *)
(***************************************************************************)
\* ref_start and ref_end, moved one base down when not reverse
LongRefIdxs(ref_len, start_radius, end_radius, reverse) ==
    LET shift == IF reverse THEN 0 ELSE 1
    IN  [ref_start |-> (ref_len \div 2) - start_radius - shift,
         ref_end |-> (ref_len \div 2) + end_radius - shift]

_handle_long_ref(ref_encoding, seq_encoding, start_radius, end_radius, reverse) ==
    LET idxs == LongRefIdxs(Len(ref_encoding), start_radius, end_radius,
                            reverse)
        sliced == PySlice(ref_encoding, idxs.ref_start, idxs.ref_end)
        references_match == array_equal(seq_encoding, sliced)
    IN  [fn |-> "_handle_long_ref",
         references_match |-> references_match,
         seq_encoding |-> IF references_match THEN seq_encoding ELSE sliced,
         sequence_at_ref |-> encoding_to_sequence(seq_encoding)]

(***************************************************************************)
(* _handle_long_ref on its own: every window of at most MaxWindow bases,   *)
(* every split of its length into start_radius and end_radius, every       *)
(* reference allele wider than the window by at most MaxAllele bases, and  *)
(* both values of reverse.                                                 *)
(***************************************************************************)
LongRefInputs ==
    {[fn |-> "_handle_long_ref",
      ref_encoding |-> sequence_to_encoding(ref),
      seq_encoding |-> sequence_to_encoding(w),
      start_radius |-> sr, end_radius |-> Len(w) - sr, reverse |-> rev] :
        ref \in SeqsOver(InputBases, 2, MaxWindow + MaxAllele),
        w \in SeqsOver(InputBases, 1, MaxWindow),
        sr \in 0..MaxWindow, rev \in BOOLEAN}

LongRefInit ==
    /\ pc = "call"
    /\ call \in LongRefInputs
    /\ call.end_radius >= 0
    /\ Len(call.ref_encoding) > Len(call.seq_encoding)
    /\ Len(call.ref_encoding) <= Len(call.seq_encoding) + MaxAllele
    /\ result = NoCall
    /\ NoSampler

HandleLongRef ==
    /\ pc = "call"
    /\ call.fn = "_handle_long_ref"
    /\ result' = _handle_long_ref(call.ref_encoding, call.seq_encoding,
                                  call.start_radius, call.end_radius,
                                  call.reverse)
    /\ pc' = "done"
    /\ UNCHANGED <<sampler_vars, call>>

LongRefNext == HandleLongRef

LongRefSpec == LongRefInit /\ [][LongRefNext]_vars

(***************************************************************************)
(* Properties of _handle_long_ref.                                         *)
(***************************************************************************)
LongRefDone == pc = "done" /\ call.fn = "_handle_long_ref"

\* the bounds of the slice of the reference allele the window is to hold
LongIdxs ==
    LongRefIdxs(Len(call.ref_encoding), call.start_radius, call.end_radius,
                call.reverse)

\* C18: for every reference allele wider than the window and either strand,
\* the returned window is the reference allele's rows [ref_start, ref_end),
\* with ref_start = ref_len // 2 - start_radius and
\* ref_end = ref_len // 2 + end_radius, both one less on the forward strand;
\* it has start_radius + end_radius rows, and matched is true exactly when
\* the window given was already that slice
C18_LongRefWindowIsSlice ==
    LongRefDone
        => /\ LongIdxs.ref_start >= 0
           /\ LongIdxs.ref_end <= Len(call.ref_encoding)
           /\ result.seq_encoding =
                  SubSeq(call.ref_encoding, LongIdxs.ref_start + 1,
                         LongIdxs.ref_end)
           /\ Len(result.seq_encoding) = call.start_radius + call.end_radius
           /\ result.references_match
                  <=> call.seq_encoding =
                          SubSeq(call.ref_encoding, LongIdxs.ref_start + 1,
                                 LongIdxs.ref_end)

\* a 3-base reference allele and a 2-base window of radii 1 and 1, forward
\* strand: the window returned is empty
C18_FailingInput ==
    /\ LongRefDone
    /\ Len(call.ref_encoding) = 3
    /\ call.start_radius = 1
    /\ call.end_radius = 1
    /\ ~call.reverse
    /\ result.seq_encoding = <<>>

(***************************************************************************)
(* get_data_and_targets and get_dataset_in_batches: a loop of calls of     *)
(* sample.  data holds the frame of get_data_and_targets: the batches      *)
(* collected so far and, after its return, what it returned.               *)
(***************************************************************************)
MaxSamples == 2

\* np.vstack of a list of batches of rows: the rows of all batches, in order
RECURSIVE vstack(_)
vstack(arrays) ==
    IF arrays = <<>> THEN <<>> ELSE Head(arrays) \o vstack(Tail(arrays))

\* np.vstack raises ValueError on an empty list
VstackRaises(arrays) == arrays = <<>>

\* n_batches = int(n_samples / batch_size)
NBatches(n_samples, b) == n_samples \div b

\* lines 268-272: set_mode(mode), the empty lists and n_batches
get_data_and_targets(m, b, n_samples) ==
    /\ m \in DOMAIN save_datasets
           => Len(save_datasets[m]) + NBatches(n_samples, b) * b <= MaxLog
    /\ mode' = m
    /\ ClearedSample
    /\ data' = [NoData EXCEPT !.active = TRUE,
                              !.mode = m,
                              !.batch_size = b,
                              !.n_samples = n_samples,
                              !.n_batches = NBatches(n_samples, b)]
    /\ pc' = "batches"
    /\ UNCHANGED <<config_vars, sample_from_intervals, interval_lengths,
                   sample_from_mode, randcache, save_datasets, sel_vars,
                   variant_vars>>

\* a call of get_data_and_targets by the user
GetDataAndTargets(m, b, n_samples) ==
    /\ pc \in {"ready", "returned"}
    /\ get_data_and_targets(m, b, n_samples)

\* a call of get_dataset_in_batches by the user; n_samples = 0 stands for
\* None as well: both are false in `if not n_samples`
GetDatasetInBatches(m, b, n_samples) ==
    /\ pc \in {"ready", "returned"}
    /\ IF n_samples # 0
       THEN get_data_and_targets(m, b, n_samples)
       ELSE IF sample_from_mode[m].is_none
       THEN /\ pc' = "error"
            /\ data' = [NoData EXCEPT !.raises = "KeyError"]
            /\ UNCHANGED <<config_vars, sample_from_intervals,
                           interval_lengths, sample_from_mode, randcache,
                           mode, save_datasets, sample_vars, sel_vars,
                           variant_vars>>
       ELSE get_data_and_targets(m, b, Len(sample_from_mode[m].indices))

\* one more batch is due: inputs, targets = self.sample(batch_size)
GetDataSample ==
    /\ pc = "batches"
    /\ Len(data.sequences_and_targets) < data.n_batches
    /\ pc' = "sample"
    /\ batch_size' = data.batch_size
    /\ n_samples_drawn' = 0
    /\ sequences' = [r \in 1..data.batch_size |-> ZeroSequence]
    /\ targets' = [r \in 1..data.batch_size |-> ZeroTargets]
    /\ writes' = <<>>
    /\ draw' = NoDraw
    /\ UNCHANGED <<config_vars, sample_from_intervals, interval_lengths,
                   sample_from_mode, randcache, mode, save_datasets, sel_vars,
                   variant_vars, data>>

\* sample has returned: the batch is appended to both lists
GetDataCollect ==
    /\ pc = "collect"
    /\ data' = [data EXCEPT
           !.sequences_and_targets = Append(@, <<sequences, targets>>),
           !.targets_mat = Append(@, targets)]
    /\ pc' = "batches"
    /\ UNCHANGED <<config_vars, sample_from_intervals, interval_lengths,
                   sample_from_mode, randcache, mode, save_datasets,
                   sample_vars, sel_vars, variant_vars>>

\* the loop is over: targets_mat = np.vstack(targets_mat) and the return
GetDataStack ==
    /\ pc = "batches"
    /\ Len(data.sequences_and_targets) = data.n_batches
    /\ IF VstackRaises(data.targets_mat)
       THEN /\ pc' = "error"
            /\ data' = [data EXCEPT !.active = FALSE, !.raises = "ValueError"]
       ELSE /\ pc' = "returned"
            /\ data' = [data EXCEPT !.active = FALSE, !.returned = TRUE,
                                    !.targets_mat = vstack(@)]
    /\ UNCHANGED <<config_vars, sample_from_intervals, interval_lengths,
                   sample_from_mode, randcache, mode, save_datasets,
                   sample_vars, sel_vars, variant_vars>>

\* a user of the sampler who reads data sets with get_data_and_targets and
\* get_dataset_in_batches
DataNext ==
    \/ _partition_dataset_proportion
    \/ _partition_dataset_chromosome
    \/ InitRandcache
    \/ \E m \in ModeSet, b \in 1..MaxBatch, n \in 0..MaxSamples :
           GetDataAndTargets(m, b, n)
    \/ \E m \in ModeSet, b \in 1..MaxBatch, n \in 0..MaxSamples :
           GetDatasetInBatches(m, b, n)
    \/ GetDataSample
    \/ SampleIter
    \/ SampleReturn
    \/ GetDataCollect
    \/ GetDataStack

DataSpec == Init /\ [][DataNext]_vars

(***************************************************************************)
(* Properties of get_data_and_targets.                                     *)
(***************************************************************************)
\* get_data_and_targets has ended, by a return or by the ValueError of
\* np.vstack
DataEnded == data.returned \/ data.raises = "ValueError"

\* C19: get_data_and_targets(mode, batch_size, n_samples) with
\* batch_size >= 1 and n_samples >= 0 makes mode the active mode and returns
\* floor(n_samples / batch_size) batches of batch_size rows and a target
\* matrix of floor(n_samples / batch_size) * batch_size rows, also when
\* n_samples < batch_size and there is no batch
C19_WholeBatches ==
    DataEnded
        => /\ data.returned
           /\ mode = data.mode
           /\ Len(data.sequences_and_targets)
                  = data.n_samples \div data.batch_size
           /\ \A k \in 1..Len(data.sequences_and_targets) :
                  /\ Len(data.sequences_and_targets[k][1]) = data.batch_size
                  /\ Len(data.sequences_and_targets[k][2]) = data.batch_size
           /\ Len(data.targets_mat)
                  = (data.n_samples \div data.batch_size) * data.batch_size

\* n_samples < batch_size: np.vstack raises on the empty list
C19_FailingInput ==
    /\ pc = "error"
    /\ data.raises = "ValueError"
    /\ data.batch_size = 2
    /\ data.n_samples = 1
    /\ data.n_batches = 0

\* what does hold: a call that returns has made its mode the active mode and
\* returns floor(n_samples / batch_size) >= 1 batches of batch_size rows and
\* their stacked targets
C19_WholeBatchesWhenSome ==
    data.returned /\ pc = "returned"
        => /\ data.n_samples \div data.batch_size >= 1
           /\ mode = data.mode
           /\ Len(data.sequences_and_targets)
                  = data.n_samples \div data.batch_size
           /\ \A k \in 1..Len(data.sequences_and_targets) :
                  /\ Len(data.sequences_and_targets[k][1]) = data.batch_size
                  /\ Len(data.sequences_and_targets[k][2]) = data.batch_size
           /\ Len(data.targets_mat)
                  = (data.n_samples \div data.batch_size) * data.batch_size
           /\ data.targets_mat
                  = vstack([k \in 1..Len(data.sequences_and_targets) |->
                                data.sequences_and_targets[k][2]])

(***************************************************************************)
(* The caches of the modes are kept apart.                                 *)
(***************************************************************************)
\* a step of sample or set_mode on a constructed sampler
AfterConstruction == pc \in {"ready", "sample", "returned"}

\* a step that draws: an iteration of the loop of sample that does not raise
DrawStep == pc = "sample" /\ pc' = "sample"

\* the cursor the draw reads at: 0 after the refill of an exhausted cache
CursorRead ==
    IF randcache[mode].sample_next = Len(sample_from_mode[mode].indices)
    THEN 0
    ELSE randcache[mode].sample_next

IsolatedStep ==
    AfterConstruction
        => /\ \A m \in ModeSet \ {mode} : randcache'[m] = randcache[m]
           /\ mode' # mode => randcache' = randcache
           /\ DrawStep
                  => /\ mode' = mode
                     /\ randcache'[mode].sample_next = CursorRead + 1
                     /\ CursorRead # 0
                            => randcache'[mode].cache_indices
                                   = randcache[mode].cache_indices

\* C20: a draw, rejected or accepted, and a refill made while a mode is
\* active leave the cache and the cursor of every other mode as they were,
\* a change of mode leaves every cache and cursor as it was, and every draw
\* moves the cursor of the active mode one past the position it read
C20_ModesIsolated == [][IsolatedStep]_vars

\* draws in validate mode after draws in train mode
C20_Witness ==
    /\ pc = "sample"
    /\ mode = "validate"
    /\ draw.kind \in {"accepted", "rejected"}
    /\ randcache["train"].sample_next >= 1
    /\ randcache["validate"].sample_next >= 1

(***************************************************************************)
(* The deletion case of _process_alt.                                      *)
(***************************************************************************)
Deletion == AltLen <= WindowLen /\ AltLen < RefLen

\* the coordinates _process_alt asks the right flank for
RhsStart == call.pos + 1 + RefLen

RhsEnd == call.end + ((RefLen + 1) \div 2) - ((AltLen + 1) \div 2)

\* C21: in the deletion case the sequence built from the two flanks and the
\* alternate allele has length end - start, for every pair of allele lengths
\* and every pos in [start, end), also when the end coordinate asked for the
\* right flank is before its start coordinate
C21_DeletionKeepsWindowLength ==
    ProcessAltDone /\ Deletion
        => Len(result.encoding) = call.end - call.start

\* the deletion of a 2-base reference allele at the last position of the
\* window: the right flank is asked for [end + 2, end + 1) and the sequence
\* built is one base longer than the window
C21_FailingInput ==
    /\ ProcessAltDone
    /\ Deletion
    /\ RefLen = 2
    /\ AltLen = 0
    /\ call.pos = call.end - 1
    /\ RhsEnd < RhsStart
    /\ Len(result.encoding) = call.end - call.start + 1

\* what does hold: the length is end - start whenever the right flank is
\* asked for a width that is not negative, and longer by the missing width
\* otherwise
C21_DeletionLengthByRightFlank ==
    ProcessAltDone /\ Deletion
        => Len(result.encoding) =
               call.end - call.start
                   + (IF RhsEnd < RhsStart THEN RhsStart - RhsEnd ELSE 0)

==============================================================================
